---------------------------- MODULE Spec2Model ----------------------------
(***************************************************************************)
(* Model of the build pipeline of zapier-platform-cli (utils/build.js):    *)
(* browserifyFiles, listFiles, forceIncludeDumbPath, makeZip,              *)
(* _appCommandZapierWrapper, build and buildAndUploadDir.                  *)
(*                                                                         *)
(* A JavaScript string is a sequence of one-character strings; strings are *)
(* compared the way Array.prototype.sort compares them, by code unit.      *)
(* A promise chain is a sequence of steps: a collaborator's asynchronous   *)
(* operation is started by the code, settled by the environment, and its   *)
(* .then callback is the next step of the code.                            *)
(*                                                                         *)
(* Specifications: Spec is one call of build or buildAndUploadDir, and     *)
(* LiveSpec is Spec with fairness of the steps of a build in flight;       *)
(* StripSpec is stripPath applied to one path; ConcSpec is several calls   *)
(* of build with one file system; CliSpec is one invocation of the CLI     *)
(* entry (entry.js).  In each, the variables of the others stay as they    *)
(* start.                                                                  *)
(***************************************************************************)
EXTENDS Naturals, Sequences, FiniteSets, TLC

(***************************************************************************)
(* Bounds of the model.                                                    *)
(***************************************************************************)
\* rows the dependency traversal emits in one run of browserifyFiles
MaxRows == 2
\* entries of the results list the validate command delivers
MaxErrors == 2
\* segments of a path below the base directory given to stripPath
MaxSegments == 4
\* builds that may run at the same time in one process
MaxBuilds == 2
\* positional arguments on the command line
MaxArgs == 2

(***************************************************************************)
(* Strings.                                                                *)
(***************************************************************************)
\* the characters the model's strings use, in ascending code-unit order
Alphabet ==
  <<"-", ".", "/", "0", "1", "A", "D", "E", "M", "R", "_",
    "a", "b", "c", "d", "e", "f", "g", "i", "j", "k", "l", "m", "n", "o",
    "p", "r", "s", "t", "u", "v", "w", "x", "z">>

CharCode(c) == CHOOSE i \in DOMAIN Alphabet : Alphabet[i] = c

\* s < t as JavaScript compares strings (code unit by code unit, a proper
\* prefix first)
RECURSIVE StrLess(_, _)
StrLess(s, t) ==
  IF t = <<>> THEN FALSE
  ELSE IF s = <<>> THEN TRUE
  ELSE IF Head(s) = Head(t) THEN StrLess(Tail(s), Tail(t))
  ELSE CharCode(Head(s)) < CharCode(Head(t))

\* String.prototype.endsWith
EndsWith(s, suffix) ==
  /\ Len(suffix) <= Len(s)
  /\ SubSeq(s, Len(s) - Len(suffix) + 1, Len(s)) = suffix

\* whether sep occurs in s at position i
OccursAt(s, sep, i) ==
  /\ i >= 1
  /\ i + Len(sep) - 1 <= Len(s)
  /\ SubSeq(s, i, i + Len(sep) - 1) = sep

\* s.split(sep).pop(): split scans s from the left for occurrences of sep
\* that do not overlap; the last piece is what follows the last of them, and
\* s itself when there is none (sep is never empty here)
RECURSIVE SplitPopFrom(_, _, _, _)
SplitPopFrom(s, sep, i, start) ==
  IF i + Len(sep) - 1 > Len(s) THEN SubSeq(s, start, Len(s))
  ELSE IF OccursAt(s, sep, i)
       THEN SplitPopFrom(s, sep, i + Len(sep), i + Len(sep))
       ELSE SplitPopFrom(s, sep, i + 1, start)

SplitPop(s, sep) == SplitPopFrom(s, sep, 1, 1)

\* the elements of a sequence
Range(seq) == {seq[i] : i \in DOMAIN seq}

\* Array.prototype.sort with the default comparison: every element goes to
\* the place after the elements that are less and the equal ones before it
Rank(seq, i) ==
  1 + Cardinality({j \in DOMAIN seq :
                     StrLess(seq[j], seq[i]) \/ (seq[j] = seq[i] /\ j < i)})
Sorted(seq) ==
  [k \in DOMAIN seq |-> seq[CHOOSE i \in DOMAIN seq : Rank(seq, i) = k]]
\* the array is taken as a value, it is not evaluated again at every use
Sort(seq) == CHOOSE r \in {Sorted(s) : s \in {seq}} : TRUE

\* _.uniq: the first occurrence of every element, in order
RECURSIVE UniqFrom(_, _)
UniqFrom(seq, seen) ==
  IF seq = <<>> THEN <<>>
  ELSE IF Head(seq) \in seen THEN UniqFrom(Tail(seq), seen)
  ELSE <<Head(seq)>> \o UniqFrom(Tail(seq), seen \cup {Head(seq)})

Uniq(seq) == UniqFrom(seq, {})

\* the elements of a set in the order a traversal happens to visit them
RECURSIVE AnyOrder(_)
AnyOrder(S) ==
  IF S = {} THEN <<>>
  ELSE LET x == CHOOSE y \in S : TRUE IN <<x>> \o AnyOrder(S \ {x})

\* path.dirname of a relative path: "." when it has no directory
Dirname(p) ==
  LET slashes == {i \in 1..Len(p) : p[i] = "/"}
  IN  IF slashes = {} THEN <<".">>
      ELSE SubSeq(p, 1, (CHOOSE i \in slashes : \A j \in slashes : j <= i) - 1)

\* the file name of a path: what follows its last separator
Basename(p) == SplitPop(p, <<"/">>)

(***************************************************************************)
(* The strings of the model.                                               *)
(***************************************************************************)
PackageJson == <<"p", "a", "c", "k", "a", "g", "e", ".", "j", "s", "o", "n">>
DefinitionJson ==
  <<"d", "e", "f", "i", "n", "i", "t", "i", "o", "n", ".", "j", "s", "o", "n">>
ZapierWrapperJs ==
  <<"z", "a", "p", "i", "e", "r", "w", "r", "a", "p", "p", "e", "r", ".", "j", "s">>
IndexJs == <<"i", "n", "d", "e", "x", ".", "j", "s">>
ReadmeMd == <<"R", "E", "A", "D", "M", "E", ".", "m", "d">>
XPackageJson == <<"x">> \o PackageJson
LibPackageJson == <<"l", "i", "b", "/">> \o PackageJson
NodeModulesIndexJs ==
  <<"n", "o", "d", "e", "_", "m", "o", "d", "u", "l", "e", "s", "/", "p", "/">>
    \o IndexJs

\* os.tmpdir()
OsTmpdir == <<"/", "t", "m", "p">>
\* the prefix the traversal is seen to put in front of a file's path
PrivatePrefix == <<"/", "p", "r", "i", "v", "a", "t", "e">>
\* crypto.randomBytes(4).toString('hex'), cut to the values the model draws
RandomHex == {<<"0">>}

\* the project trees the model builds: the files of the source directory
ProjectTrees ==
  { {IndexJs, ReadmeMd, PackageJson},
    {IndexJs, XPackageJson, LibPackageJson},
    {IndexJs} }
\* what npm install --production adds to the working directory
NpmFiles == {NodeModulesIndexJs}

\* JavaScript's undefined, for an argument left out
Undefined == "undefined"
\* constants.BUILD_PATH
BUILD_PATH == "build/build.zip"
\* process.cwd()
ProcessCwd == "process.cwd()"
ZipPathArgs == {Undefined, "out.zip"}

\* a || b for string arguments
OrDefault(a, b) == IF a = Undefined THEN b ELSE a

(***************************************************************************)
(* Values a promise settles with: kind tells what the value is, of the     *)
(* operation it comes from, detail what it says, and results the list of   *)
(* validation problems it carries (none: the empty list).                  *)
(***************************************************************************)
NoValue == [kind |-> "none", of |-> "", detail |-> "", results |-> <<>>]
\* the error a collaborator's operation fails with; detail stands for what
\* it carries (the subprocess's captured output, the errno)
ErrorOf(op, detail) ==
  [kind |-> "error", of |-> op, detail |-> detail, results |-> <<>>]
ErrDetails == {"output 1", "output 2"}
\* new Error('We hit some validation errors, ...'): a message and nothing
\* else
ValidationMessage ==
  "We hit some validation errors, try running zapier validate to see them!"
ValidationError ==
  [kind |-> "Error", of |-> "build", detail |-> ValidationMessage,
   results |-> <<>>]
PathValue(zp) == [kind |-> "path", of |-> "", detail |-> zp, results |-> <<>>]
\* what upload(zipPath, appDir) resolves with
UploadResults ==
  { [kind |-> "response", of |-> "upload", detail |-> d, results |-> <<>>] :
      d \in {"created", "updated"} }

\* the results lists the validate command can deliver
ErrorStrings == {"e1", "e2"}
ResultLists == UNION {[1..n -> ErrorStrings] : n \in 0..MaxErrors}
\* the structures the definition command can deliver
Definitions == {"definition 1"}
\* prettyJSONstringify
PrettyJSONstringify(d) == <<"pretty", d>>
NoContent == <<>>

(***************************************************************************)
(* The pure functions of build.js.                                         *)
(***************************************************************************)
stripPath(cwd, filePath) == SplitPop(filePath, cwd)

\* as forceIncludeDumbPath, without the definition file
forceIncludePackageOnly(filePath) == EndsWith(filePath, PackageJson)

forceIncludeDumbPath(filePath) ==
  EndsWith(filePath, PackageJson) \/ EndsWith(filePath, DefinitionJson)

\* as FinalPaths, without _.uniq
FinalPathsNoUniq(disable, smart, dumb) ==
  IF disable THEN dumb
  ELSE Sort(smart \o SelectSeq(dumb, forceIncludeDumbPath))

\* the second .then of makeZip: the paths the archive gets
FinalPaths(disable, smart, dumb) ==
  IF disable THEN dumb
  ELSE Sort(Uniq(smart \o SelectSeq(dumb, forceIncludeDumbPath)))

\* the 'end' handler of browserifyFiles and of listFiles: paths.sort()
SortedPaths(paths) == Sort(paths)

\* the third .then of makeZip: one zip.addLocalFile per path; zipDir is the
\* empty string for the undefined that stands for the archive's root
NoDir == <<>>
\* as ZipEntry, with path.dirname's '.' handed on to zip.addLocalFile
ZipEntryDotDir(dir, filePath, content) ==
  [ local |-> dir \o <<"/">> \o filePath,
    zipDir |-> Dirname(filePath),
    data |-> content[filePath] ]

ZipEntry(dir, filePath, content) ==
  [ local |-> dir \o <<"/">> \o filePath,
    zipDir |-> IF Dirname(filePath) = <<".">> THEN NoDir ELSE Dirname(filePath),
    data |-> content[filePath] ]

ZipEntries(dir, paths, content) ==
  [i \in DOMAIN paths |-> ZipEntry(dir, paths[i], content)]

\* _appCommandZapierWrapper: the event entry.handler gets, a copy of the
\* caller's with the two flags set
WrapperEvent(event) ==
  [ command |-> event.command,
    calledFromCli |-> TRUE,
    doNotMonkeyPatchPromises |-> TRUE ]

\* as CallerEvent, with Object.assign given the caller's object as target
CallerEventAssigned(event) == WrapperEvent(event)

\* the caller's object after the call: Object.assign's target is a new
\* object, the caller's is only read
CallerEvent(event) == event

\* makePromise's callback(err, resp): the promise is rejected with err if
\* there is one and fulfilled with resp otherwise
Delivery(command, err, response) ==
  [command |-> command, err |-> err, response |-> response]
CallbackResult(d) == IF d.err = NoValue THEN d.response ELSE d.err

(***************************************************************************)
(* The order of the promise chains.                                        *)
(***************************************************************************)
\* as Chain, with the installation started before the copy
ChainInstallFirst ==
  << "ensureDir", "npmInstall", "copyDir", "readFile", "writeFile",
     "validate", "checkValidation", "definition", "writeDefinition", "touch",
     "browserify", "listFiles", "finalPaths", "writeZip", "removeDir" >>

\* as WriteRoot, with npm install run in the project's directory
WriteRootInstallInSource(op) ==
  CASE op = "writeZip" -> "wdir"
    [] op = "npmInstall" -> "wdir"
    [] OTHER -> "tmpDir"

\* the steps of build that write, and the directory each is given to write
\* below: tmpDir (lines 160, 163, 168, 175, 198, 203, 211), or wdir for the
\* archive (line 207)
Writers ==
  { "ensureDir", "copyDir", "npmInstall", "writeFile", "writeDefinition",
    "touch", "writeZip", "removeDir" }
WriteRoot(op) ==
  CASE op = "writeZip" -> "wdir"
    [] OTHER -> "tmpDir"

\* as Chain, with the directory scanned before the dependencies are traversed
ChainScanFirst ==
  << "ensureDir", "copyDir", "npmInstall", "readFile", "writeFile",
     "validate", "checkValidation", "definition", "writeDefinition", "touch",
     "listFiles", "browserify", "finalPaths", "writeZip", "removeDir" >>

\* as Chain, with the definition taken before the validation
ChainDefinitionFirst ==
  << "ensureDir", "copyDir", "npmInstall", "readFile", "writeFile",
     "definition", "writeDefinition", "validate", "checkValidation", "touch",
     "browserify", "listFiles", "finalPaths", "writeZip", "removeDir" >>

\* the steps of build in the order of its .then chain: the asynchronous
\* operations of its collaborators and, between them, the callbacks that
\* only compute (checkValidation, and finalPaths and writeZip in makeZip)
Chain ==
  << "ensureDir", "copyDir", "npmInstall", "readFile", "writeFile",
     "validate", "checkValidation", "definition", "writeDefinition", "touch",
     "browserify", "listFiles", "finalPaths", "writeZip", "removeDir" >>

\* the operation whose fulfilment the callback that starts op waits for
Prev(op) == Chain[(CHOOSE i \in DOMAIN Chain : Chain[i] = op) - 1]

\* as Propagate, by a handler that rejects with an error of its own
PropagateWrapped(err) ==
  [kind |-> "Error", of |-> "build", detail |-> "build failed", results |-> <<>>]

\* a rejection passes every later .then of the chain unchanged: none of them
\* has a rejection handler
Propagate(err) == err

\* as HasErrors, by a test that never finds an error
HasErrorsNever(results) == FALSE

\* the first .then after the validate call: errors.length
HasErrors(results) == Len(results) > 0

(***************************************************************************)
(* State.                                                                  *)
(***************************************************************************)
VARIABLES
  srcFiles,        \* the files of the source directory, relative to it
  disableDetection,\* global.argOpts['disable-dependency-detection']
  entry,           \* the function the caller invoked: "none", "build",
                   \* "buildAndUploadDir"
  zipPathArg,      \* the zipPath argument the caller gave
  upState,         \* buildAndUploadDir's promise: "notStarted", "running",
                   \* "resolved", "rejected"
  upValue,         \* what it settled with
  upPending,       \* the coordinator's operations in progress
  upSettled,       \* its last settled operation, until a callback takes it
  upLog,           \* the coordinator's operations started and settled, in
                   \* order
  calls,           \* how often each function was invoked
  bState,          \* build's promise, as upState
  bValue,          \* what it settled with
  zipPath,         \* build's zipPath after the default
  wdir,            \* build's wdir after the default
  tmpDir,          \* the working directory's path, <<>> before build
  pending,         \* build's operations in progress
  settled,         \* build's last settled step, until a callback takes it
  opLog,           \* the steps build started, in order
  outcomes,        \* how each of them ended, in order
  resp,            \* resp.results of the validate call
  rawDefinition,   \* rawDefinition.results of the definition call
  events,          \* the events entry.handler was invoked with, in order
  callerEvents,    \* the event objects build passed, as they are after the
                   \* calls
  delivered,       \* what entry.handler passed to promise.callback, in order
  tmpExists,       \* whether the working directory exists
  tmpFiles,        \* its files, relative to it
  defContent,      \* the content of its definition.json
  touched,         \* whether the timestamps were normalised
  rows,            \* the rows the traversal emitted so far
  paths,           \* the paths array of browserifyFiles
  smartPaths,      \* what browserifyFiles resolved with
  dumbPaths,       \* what listFiles resolved with
  finalPaths,      \* what the second .then of makeZip returned
  archive,         \* the archive at the target path: whether it was
                   \* written, where, and its entries
  spCwd,           \* stripPath alone: its cwd argument
  spRel,           \* the path below cwd that the traversal meant
  spFile,          \* its filePath argument
  spOut,           \* what it returned
  spDone,          \* whether it was applied
  cPc,             \* several builds at once: where each build is
  cDir,            \* the tmpDir each build computed, <<>> before
  cExists,         \* the directories that exist below os.tmpdir()
  cFresh,          \* whether a build's ensureDir had to create its tmpDir
  cLog,            \* which build wrote into or removed which directory
  cliPc,           \* the CLI entry: where its invocation is
  nodeValid,       \* what utils.isValidNodeVersion() returns
  parsedArgs,      \* the args utils.argParse returned
  helpOpt,         \* argOpts.help
  args,            \* the entry's args
  command,         \* the entry's command
  errors,          \* what utils.enforceArgSpec returned
  invoked,         \* the command functions applied, with their arguments
  lines            \* what was printed, by kind

inputVars == <<srcFiles, disableDetection, entry, zipPathArg>>
upVars == <<upState, upValue, upPending, upSettled, upLog>>
promiseVars == <<bState, bValue>>
argVars == <<zipPath, wdir, tmpDir>>
stepVars == <<pending, settled, opLog, outcomes>>
handlerVars == <<resp, rawDefinition, events, callerEvents, delivered>>
fsVars == <<tmpExists, tmpFiles, defContent, touched>>
zipVars == <<rows, paths, smartPaths, dumbPaths, finalPaths>>
buildVars ==
  << inputVars, upVars, calls, promiseVars, argVars, stepVars, handlerVars,
     fsVars, zipVars, archive >>
stripVars == <<spCwd, spRel, spFile, spOut, spDone>>
concVars == <<cPc, cDir, cExists, cFresh, cLog>>
cliVars ==
  <<cliPc, nodeValid, parsedArgs, helpOpt, args, command, errors, invoked, lines>>
auxVars == <<stripVars, concVars, cliVars>>
vars == <<buildVars, auxVars>>

NoStep == [op |-> "none", ok |-> TRUE, val |-> NoValue]
Fulfilled(op, val) == [op |-> op, ok |-> TRUE, val |-> val]
Rejected(op, err) == [op |-> op, ok |-> FALSE, val |-> err]

Functions == {"checkCredentials", "build", "upload", "makeZip", "removeDir"}
NoArchive == [written |-> FALSE, dir |-> "", path |-> "", entries |-> <<>>]

\* stripPath has not been given anything
StripIdle ==
  /\ spCwd = <<>>
  /\ spRel = <<>>
  /\ spFile = <<>>
  /\ spOut = <<>>
  /\ spDone = FALSE

\* nothing of build.js was called yet
BuildInit ==
  /\ srcFiles \in ProjectTrees
  /\ disableDetection \in BOOLEAN
  /\ entry = "none"
  /\ zipPathArg = Undefined
  /\ upState = "notStarted"
  /\ upValue = NoValue
  /\ upPending = {}
  /\ upSettled = NoStep
  /\ upLog = <<>>
  /\ calls = [f \in Functions |-> 0]
  /\ bState = "notStarted"
  /\ bValue = NoValue
  /\ zipPath = Undefined
  /\ wdir = Undefined
  /\ tmpDir = <<>>
  /\ pending = {}
  /\ settled = NoStep
  /\ opLog = <<>>
  /\ outcomes = <<>>
  /\ resp = <<>>
  /\ rawDefinition = ""
  /\ events = <<>>
  /\ callerEvents = <<>>
  /\ delivered = <<>>
  /\ tmpExists = FALSE
  /\ tmpFiles = {}
  /\ defContent = NoContent
  /\ touched = FALSE
  /\ rows = {}
  /\ paths = <<>>
  /\ smartPaths = <<>>
  /\ dumbPaths = <<>>
  /\ finalPaths = <<>>
  /\ archive = NoArchive

Builds == 1..MaxBuilds

\* no build of the several was called
ConcIdle ==
  /\ cPc = [b \in Builds |-> "notStarted"]
  /\ cDir = [b \in Builds |-> <<>>]
  /\ cExists = {}
  /\ cFresh = [b \in Builds |-> FALSE]
  /\ cLog = {}

\* the CLI entry was not invoked
CliIdle ==
  /\ cliPc = "idle"
  /\ nodeValid = TRUE
  /\ parsedArgs = <<>>
  /\ helpOpt = FALSE
  /\ args = <<>>
  /\ command = ""
  /\ errors = <<>>
  /\ invoked = <<>>
  /\ lines = <<>>

Init ==
  /\ BuildInit
  /\ StripIdle
  /\ ConcIdle
  /\ CliIdle

(***************************************************************************)
(* Steps of a promise chain.                                               *)
(***************************************************************************)
\* the code starts a collaborator's operation
Start(op) ==
  /\ pending' = pending \cup {op}
  /\ settled' = NoStep
  /\ opLog' = Append(opLog, op)
  /\ UNCHANGED outcomes

\* the collaborator settles it
Settle(op, step) ==
  /\ op \in pending
  /\ pending' = pending \ {op}
  /\ settled' = step
  /\ outcomes' = Append(outcomes, step)
  /\ UNCHANGED opLog

\* a callback that only computes runs to its end in one step
Compute(op, step) ==
  /\ settled' = step
  /\ opLog' = Append(opLog, op)
  /\ outcomes' = Append(outcomes, step)
  /\ UNCHANGED pending

\* the callback that starts op runs when the step before it is fulfilled
Ready(op) ==
  /\ bState = "running"
  /\ settled.op = Prev(op)
  /\ settled.ok

Called(f) == calls' = [calls EXCEPT ![f] = @ + 1]

(***************************************************************************)
(* build (lines 156-217).                                                  *)
(***************************************************************************)
\* build(zipPath, wdir) up to its first asynchronous call, ensureDir(tmpDir)
BuildBody(zp, wd) ==
  /\ bState = "notStarted"
  /\ bState' = "running"
  /\ Called("build")
  /\ wdir' = OrDefault(wd, ProcessCwd)
  /\ zipPath' = OrDefault(zp, BUILD_PATH)
  /\ \E hex \in RandomHex :
       tmpDir' = OsTmpdir \o <<"/", "z", "a", "p", "i", "e", "r", "-">> \o hex
  /\ Start("ensureDir")
  /\ UNCHANGED <<bValue, handlerVars, fsVars, zipVars, archive>>

\* the caller invokes build directly
CallBuild ==
  /\ entry = "none"
  /\ \E zp \in ZipPathArgs :
       /\ zipPathArg' = zp
       /\ BuildBody(zp, Undefined)
  /\ entry' = "build"
  /\ UNCHANGED <<auxVars, srcFiles, disableDetection, upVars>>

EnsureDirSettles ==
  /\ \/ /\ Settle("ensureDir", Fulfilled("ensureDir", NoValue))
        /\ tmpExists' = TRUE
     \/ /\ \E d \in ErrDetails :
             Settle("ensureDir", Rejected("ensureDir", ErrorOf("ensureDir", d)))
        /\ UNCHANGED tmpExists
  /\ UNCHANGED <<auxVars, inputVars, upVars, calls, promiseVars, argVars, handlerVars,
                 tmpFiles, defContent, touched, zipVars, archive>>

ThenCopyDir ==
  /\ Ready("copyDir")
  /\ Start("copyDir")
  /\ UNCHANGED <<auxVars, inputVars, upVars, calls, promiseVars, argVars, handlerVars,
                 fsVars, zipVars, archive>>

CopyDirSettles ==
  /\ \/ /\ Settle("copyDir", Fulfilled("copyDir", NoValue))
        /\ tmpFiles' = tmpFiles \cup srcFiles
     \/ /\ \E d \in ErrDetails :
             Settle("copyDir", Rejected("copyDir", ErrorOf("copyDir", d)))
        /\ UNCHANGED tmpFiles
  /\ UNCHANGED <<auxVars, inputVars, upVars, calls, promiseVars, argVars, handlerVars,
                 tmpExists, defContent, touched, zipVars, archive>>

ThenNpmInstall ==
  /\ Ready("npmInstall")
  /\ Start("npmInstall")
  /\ UNCHANGED <<auxVars, inputVars, upVars, calls, promiseVars, argVars, handlerVars,
                 fsVars, zipVars, archive>>

\* runCommand('npm', ['install', '--production']): a non-zero exit rejects
\* with an error that carries the captured output
NpmInstallSettles ==
  /\ \/ /\ Settle("npmInstall", Fulfilled("npmInstall", NoValue))
        /\ tmpFiles' = tmpFiles \cup NpmFiles
     \/ /\ \E d \in ErrDetails :
             Settle("npmInstall", Rejected("npmInstall", ErrorOf("npmInstall", d)))
        /\ UNCHANGED tmpFiles
  /\ UNCHANGED <<auxVars, inputVars, upVars, calls, promiseVars, argVars, handlerVars,
                 tmpExists, defContent, touched, zipVars, archive>>

ThenReadFile ==
  /\ Ready("readFile")
  /\ Start("readFile")
  /\ UNCHANGED <<auxVars, inputVars, upVars, calls, promiseVars, argVars, handlerVars,
                 fsVars, zipVars, archive>>

ReadFileSettles ==
  /\ \/ Settle("readFile", Fulfilled("readFile", NoValue))
     \/ \E d \in ErrDetails :
          Settle("readFile", Rejected("readFile", ErrorOf("readFile", d)))
  /\ UNCHANGED <<auxVars, inputVars, upVars, calls, promiseVars, argVars, handlerVars,
                 fsVars, zipVars, archive>>

ThenWriteFile ==
  /\ Ready("writeFile")
  /\ Start("writeFile")
  /\ UNCHANGED <<auxVars, inputVars, upVars, calls, promiseVars, argVars, handlerVars,
                 fsVars, zipVars, archive>>

WriteFileSettles ==
  /\ \/ /\ Settle("writeFile", Fulfilled("writeFile", NoValue))
        /\ tmpFiles' = tmpFiles \cup {ZapierWrapperJs}
     \/ /\ \E d \in ErrDetails :
             Settle("writeFile", Rejected("writeFile", ErrorOf("writeFile", d)))
        /\ UNCHANGED tmpFiles
  /\ UNCHANGED <<auxVars, inputVars, upVars, calls, promiseVars, argVars, handlerVars,
                 tmpExists, defContent, touched, zipVars, archive>>

\* _appCommandZapierWrapper(tmpDir, {command: 'validate'})
ThenValidate ==
  /\ Ready("validate")
  /\ Start("validate")
  /\ events' = Append(events, WrapperEvent([command |-> "validate"]))
  /\ callerEvents' = Append(callerEvents, CallerEvent([command |-> "validate"]))
  /\ UNCHANGED <<auxVars, inputVars, upVars, calls, promiseVars, argVars, resp,
                 rawDefinition, delivered, fsVars, zipVars, archive>>

\* the handler calls promise.callback with a response or with an error
ValidateSettles ==
  /\ \/ \E r \in ResultLists :
          LET d == Delivery("validate", NoValue, r)
          IN  /\ Settle("validate", Fulfilled("validate", NoValue))
              /\ resp' = CallbackResult(d)
              /\ delivered' = Append(delivered, d)
     \/ \E e \in ErrDetails :
          LET d == Delivery("validate", ErrorOf("validate", e), <<>>)
          IN  /\ Settle("validate", Rejected("validate", CallbackResult(d)))
              /\ delivered' = Append(delivered, d)
              /\ UNCHANGED resp
  /\ UNCHANGED <<auxVars, inputVars, upVars, calls, promiseVars, argVars,
                 rawDefinition, events, callerEvents, fsVars, zipVars, archive>>

\* .then((resp) => { var errors = resp.results; if (errors.length) throw ... })
ThenCheckValidation ==
  /\ Ready("checkValidation")
  /\ IF HasErrors(resp)
       THEN Compute("checkValidation", Rejected("checkValidation", ValidationError))
       ELSE Compute("checkValidation", Fulfilled("checkValidation", NoValue))
  /\ UNCHANGED <<auxVars, inputVars, upVars, calls, promiseVars, argVars, handlerVars,
                 fsVars, zipVars, archive>>

\* _appCommandZapierWrapper(tmpDir, {command: 'definition'})
ThenDefinition ==
  /\ Ready("definition")
  /\ Start("definition")
  /\ events' = Append(events, WrapperEvent([command |-> "definition"]))
  /\ callerEvents' =
       Append(callerEvents, CallerEvent([command |-> "definition"]))
  /\ UNCHANGED <<auxVars, inputVars, upVars, calls, promiseVars, argVars, resp,
                 rawDefinition, delivered, fsVars, zipVars, archive>>

DefinitionSettles ==
  /\ \/ \E r \in Definitions :
          LET d == Delivery("definition", NoValue, r)
          IN  /\ Settle("definition", Fulfilled("definition", NoValue))
              /\ rawDefinition' = CallbackResult(d)
              /\ delivered' = Append(delivered, d)
     \/ \E e \in ErrDetails :
          LET d == Delivery("definition", ErrorOf("definition", e), "")
          IN  /\ Settle("definition", Rejected("definition", CallbackResult(d)))
              /\ delivered' = Append(delivered, d)
              /\ UNCHANGED rawDefinition
  /\ UNCHANGED <<auxVars, inputVars, upVars, calls, promiseVars, argVars, resp,
                 events, callerEvents, fsVars, zipVars, archive>>

\* writeFile(`${tmpDir}/definition.json`, prettyJSONstringify(...))
ThenWriteDefinition ==
  /\ Ready("writeDefinition")
  /\ Start("writeDefinition")
  /\ UNCHANGED <<auxVars, inputVars, upVars, calls, promiseVars, argVars, handlerVars,
                 fsVars, zipVars, archive>>

WriteDefinitionSettles ==
  /\ \/ /\ Settle("writeDefinition", Fulfilled("writeDefinition", NoValue))
        /\ tmpFiles' = tmpFiles \cup {DefinitionJson}
        /\ defContent' = PrettyJSONstringify(rawDefinition)
     \/ /\ \E d \in ErrDetails :
             Settle("writeDefinition",
                    Rejected("writeDefinition", ErrorOf("writeDefinition", d)))
        /\ UNCHANGED <<tmpFiles, defContent>>
  /\ UNCHANGED <<auxVars, inputVars, upVars, calls, promiseVars, argVars, handlerVars,
                 tmpExists, touched, zipVars, archive>>

\* runCommand('find', ['.', '-exec', 'touch', '-t', '201601010000', ...])
ThenTouch ==
  /\ Ready("touch")
  /\ Start("touch")
  /\ UNCHANGED <<auxVars, inputVars, upVars, calls, promiseVars, argVars, handlerVars,
                 fsVars, zipVars, archive>>

TouchSettles ==
  /\ \/ /\ Settle("touch", Fulfilled("touch", NoValue))
        /\ touched' = TRUE
     \/ /\ \E d \in ErrDetails :
             Settle("touch", Rejected("touch", ErrorOf("touch", d)))
        /\ UNCHANGED touched
  /\ UNCHANGED <<auxVars, inputVars, upVars, calls, promiseVars, argVars, handlerVars,
                 tmpExists, tmpFiles, defContent, zipVars, archive>>

(***************************************************************************)
(* makeZip (lines 112-141), browserifyFiles (43-87), listFiles (89-105).   *)
(***************************************************************************)
\* cwd of browserifyFiles and of listFiles: the directory and a separator
Cwd == tmpDir \o <<"/">>

\* the paths the traversal can report for the files of the working
\* directory: the file's own path, or that path behind PrivatePrefix
RowUniverse ==
  {Cwd \o f : f \in tmpFiles} \cup {PrivatePrefix \o Cwd \o f : f \in tmpFiles}

\* makeZip(tmpDir, wdir + '/' + zipPath) up to browserifyFiles(dir)
ThenMakeZip ==
  /\ Ready("browserify")
  /\ Called("makeZip")
  /\ Start("browserify")
  /\ rows' = {}
  /\ paths' = <<>>
  /\ UNCHANGED <<auxVars, inputVars, upVars, promiseVars, argVars, handlerVars, fsVars,
                 smartPaths, dumbPaths, finalPaths, archive>>

\* the through.obj callback: one row of the 'deps' pipeline
BrowserifyRow ==
  /\ "browserify" \in pending
  /\ Len(paths) < MaxRows
  /\ \E row \in RowUniverse \ rows :
       /\ rows' = rows \cup {row}
       /\ paths' = Append(paths, stripPath(Cwd, row))
  /\ UNCHANGED <<auxVars, inputVars, upVars, calls, promiseVars, argVars, stepVars,
                 handlerVars, fsVars, smartPaths, dumbPaths, finalPaths, archive>>

\* .on('end', ...): paths.sort(); resolve(paths). The array is sorted in
\* place and is the value the promise resolves with; the traversal is over
BrowserifyEnd ==
  /\ Settle("browserify", Fulfilled("browserify", NoValue))
  /\ paths' = SortedPaths(paths)
  /\ smartPaths' = paths'
  /\ rows' = {}
  /\ UNCHANGED <<auxVars, inputVars, upVars, calls, promiseVars, argVars, handlerVars,
                 fsVars, dumbPaths, finalPaths, archive>>

\* as BrowserifyError, with no listener for the bundler's 'error': the
\* traversal is over and the promise of browserifyFiles is not settled
BrowserifyErrorLost ==
  /\ "browserify" \in pending
  /\ pending' = pending \ {"browserify"}
  /\ UNCHANGED <<auxVars, inputVars, upVars, calls, promiseVars, argVars, settled,
                 opLog, outcomes, handlerVars, fsVars, zipVars, archive>>

\* b.on('error', reject)
BrowserifyError ==
  /\ \E d \in ErrDetails :
       Settle("browserify", Rejected("browserify", ErrorOf("browserify", d)))
  /\ UNCHANGED <<auxVars, inputVars, upVars, calls, promiseVars, argVars, handlerVars,
                 fsVars, zipVars, archive>>

\* Promise.all([smartPaths, listFiles(dir)])
ThenListFiles ==
  /\ Ready("listFiles")
  /\ Start("listFiles")
  /\ UNCHANGED <<auxVars, inputVars, upVars, calls, promiseVars, argVars, handlerVars,
                 fsVars, zipVars, archive>>

\* listFiles: fse.walk reports every file of dir in some order; each is
\* pushed stripped of cwd, and 'end' sorts
ListFiles(dir, files) ==
  LET walk == AnyOrder(files)
  IN  SortedPaths([i \in DOMAIN walk |->
                     stripPath(dir \o <<"/">>, dir \o <<"/">> \o walk[i])])

ListFilesSettles ==
  /\ \/ /\ \E d \in ErrDetails :
             Settle("listFiles", Rejected("listFiles", ErrorOf("listFiles", d)))
        /\ UNCHANGED dumbPaths
     \/ /\ Settle("listFiles", Fulfilled("listFiles", NoValue))
        /\ dumbPaths' = ListFiles(tmpDir, tmpFiles)
  /\ UNCHANGED <<auxVars, inputVars, upVars, calls, promiseVars, argVars, handlerVars,
                 fsVars, rows, paths, smartPaths, finalPaths, archive>>

\* .then(([smartPaths, dumbPaths]) => ...): the paths to archive
ThenFinalPaths ==
  /\ Ready("finalPaths")
  /\ Compute("finalPaths", Fulfilled("finalPaths", NoValue))
  /\ finalPaths' = FinalPaths(disableDetection, smartPaths, dumbPaths)
  /\ UNCHANGED <<auxVars, inputVars, upVars, calls, promiseVars, argVars, handlerVars,
                 fsVars, rows, paths, smartPaths, dumbPaths, archive>>

\* what zip.addLocalFile reads from the working directory; of the contents
\* only that of definition.json is told apart
LocalContent ==
  [f \in Range(finalPaths) |-> IF f = DefinitionJson THEN defContent ELSE NoContent]

\* .then((paths) => new Promise(...)): every path is added and the archive
\* written; an exception of adm-zip rejects
ThenWriteZip ==
  /\ Ready("writeZip")
  /\ \/ /\ \E d \in ErrDetails :
             Compute("writeZip", Rejected("writeZip", ErrorOf("writeZip", d)))
        /\ UNCHANGED archive
     \/ /\ Compute("writeZip", Fulfilled("writeZip", NoValue))
        /\ archive' = [ written |-> TRUE, dir |-> wdir, path |-> zipPath,
                        entries |-> ZipEntries(tmpDir, finalPaths, LocalContent) ]
  /\ UNCHANGED <<auxVars, inputVars, upVars, calls, promiseVars, argVars, handlerVars,
                 fsVars, zipVars>>

\* removeDir(tmpDir)
ThenRemoveDir ==
  /\ Ready("removeDir")
  /\ Called("removeDir")
  /\ Start("removeDir")
  /\ UNCHANGED <<auxVars, inputVars, upVars, promiseVars, argVars, handlerVars, fsVars,
                 zipVars, archive>>

RemoveDirSettles ==
  /\ \/ /\ Settle("removeDir", Fulfilled("removeDir", NoValue))
        /\ tmpExists' = FALSE
        /\ tmpFiles' = {}
        /\ defContent' = NoContent
     \/ /\ \E d \in ErrDetails :
             Settle("removeDir", Rejected("removeDir", ErrorOf("removeDir", d)))
        /\ UNCHANGED <<tmpExists, tmpFiles, defContent>>
  /\ UNCHANGED <<auxVars, inputVars, upVars, calls, promiseVars, argVars, handlerVars,
                 touched, zipVars, archive>>

\* the last .then: return zipPath
ThenReturnZipPath ==
  /\ bState = "running"
  /\ settled.op = "removeDir"
  /\ settled.ok
  /\ bState' = "resolved"
  /\ bValue' = PathValue(zipPath)
  /\ UNCHANGED <<auxVars, inputVars, upVars, calls, argVars, stepVars, handlerVars,
                 fsVars, zipVars, archive>>

\* a rejected step rejects build's promise: no .then of the chain handles
\* a rejection, so none of the later callbacks runs
BuildRejects ==
  /\ bState = "running"
  /\ settled.op # "none"
  /\ ~settled.ok
  /\ bState' = "rejected"
  /\ bValue' = Propagate(settled.val)
  /\ UNCHANGED <<auxVars, inputVars, upVars, calls, argVars, stepVars, handlerVars,
                 fsVars, zipVars, archive>>

(***************************************************************************)
(* buildAndUploadDir (lines 219-229).                                      *)
(***************************************************************************)
\* the coordinator's zipPath and appDir after their defaults; the model's
\* caller leaves appDir out
UpZipPath == OrDefault(zipPathArg, BUILD_PATH)
UpAppDir == OrDefault(Undefined, ".")

\* the coordinator's operations in the order of its .then chain
UpChain == <<"checkCredentials", "build", "upload">>

UpPrev(op) == UpChain[(CHOOSE i \in DOMAIN UpChain : UpChain[i] = op) - 1]

\* as UpReady, by a callback that also runs when the operation before it
\* is rejected
UpReadyAnyOutcome(op) ==
  /\ upState = "running"
  /\ upSettled.op = UpPrev(op)

\* the callback that starts op runs when the operation before it is
\* fulfilled
UpReady(op) ==
  /\ upState = "running"
  /\ upSettled.op = UpPrev(op)
  /\ upSettled.ok

UpStart(op) ==
  /\ upPending' = upPending \cup {op}
  /\ upSettled' = NoStep
  /\ upLog' = Append(upLog, <<"start", op>>)

UpSettle(op, step) ==
  /\ op \in upPending
  /\ upPending' = upPending \ {op}
  /\ upSettled' = step
  /\ upLog' = Append(upLog, <<IF step.ok THEN "fulfilled" ELSE "rejected", op>>)

\* buildAndUploadDir(zipPath) up to checkCredentials()
CallBuildAndUploadDir ==
  /\ entry = "none"
  /\ entry' = "buildAndUploadDir"
  /\ zipPathArg' \in ZipPathArgs
  /\ upState' = "running"
  /\ Called("checkCredentials")
  /\ UpStart("checkCredentials")
  /\ UNCHANGED <<auxVars, srcFiles, disableDetection, upValue, promiseVars, argVars,
                 stepVars, handlerVars, fsVars, zipVars, archive>>

CheckCredentialsSettles ==
  /\ \/ UpSettle("checkCredentials", Fulfilled("checkCredentials", NoValue))
     \/ \E d \in ErrDetails :
          UpSettle("checkCredentials",
                   Rejected("checkCredentials", ErrorOf("checkCredentials", d)))
  /\ UNCHANGED <<auxVars, inputVars, upState, upValue, calls, promiseVars, argVars,
                 stepVars, handlerVars, fsVars, zipVars, archive>>

\* .then(() => build(zipPath, appDir))
UpThenBuild ==
  /\ UpReady("build")
  /\ UpStart("build")
  /\ BuildBody(UpZipPath, UpAppDir)
  /\ UNCHANGED <<auxVars, inputVars, upState, upValue>>

\* the promise build returned settles the coordinator's step
UpBuildSettles ==
  /\ bState \in {"resolved", "rejected"}
  /\ UpSettle("build", IF bState = "resolved" THEN Fulfilled("build", bValue)
                       ELSE Rejected("build", bValue))
  /\ UNCHANGED <<auxVars, inputVars, upState, upValue, calls, promiseVars, argVars,
                 stepVars, handlerVars, fsVars, zipVars, archive>>

\* .then(() => upload(zipPath, appDir))
UpThenUpload ==
  /\ UpReady("upload")
  /\ Called("upload")
  /\ UpStart("upload")
  /\ UNCHANGED <<auxVars, inputVars, upState, upValue, promiseVars, argVars, stepVars,
                 handlerVars, fsVars, zipVars, archive>>

UploadSettles ==
  /\ \/ \E r \in UploadResults : UpSettle("upload", Fulfilled("upload", r))
     \/ \E d \in ErrDetails :
          UpSettle("upload", Rejected("upload", ErrorOf("upload", d)))
  /\ UNCHANGED <<auxVars, inputVars, upState, upValue, calls, promiseVars, argVars,
                 stepVars, handlerVars, fsVars, zipVars, archive>>

\* the coordinator's promise is the one the last .then returned: it
\* resolves with what upload resolved with
UpResolves ==
  /\ upState = "running"
  /\ upSettled.op = "upload"
  /\ upSettled.ok
  /\ upState' = "resolved"
  /\ upValue' = upSettled.val
  /\ UNCHANGED <<auxVars, inputVars, upPending, upSettled, upLog, calls, promiseVars,
                 argVars, stepVars, handlerVars, fsVars, zipVars, archive>>

\* a rejected step rejects the coordinator's promise
UpRejects ==
  /\ upState = "running"
  /\ upSettled.op # "none"
  /\ ~upSettled.ok
  /\ upState' = "rejected"
  /\ upValue' = upSettled.val
  /\ UNCHANGED <<auxVars, inputVars, upPending, upSettled, upLog, calls, promiseVars,
                 argVars, stepVars, handlerVars, fsVars, zipVars, archive>>

(***************************************************************************)
(* The specification.                                                      *)
(***************************************************************************)
Next ==
  \/ CallBuild
  \/ EnsureDirSettles
  \/ ThenCopyDir
  \/ CopyDirSettles
  \/ ThenNpmInstall
  \/ NpmInstallSettles
  \/ ThenReadFile
  \/ ReadFileSettles
  \/ ThenWriteFile
  \/ WriteFileSettles
  \/ ThenValidate
  \/ ValidateSettles
  \/ ThenCheckValidation
  \/ ThenDefinition
  \/ DefinitionSettles
  \/ ThenWriteDefinition
  \/ WriteDefinitionSettles
  \/ ThenTouch
  \/ TouchSettles
  \/ ThenMakeZip
  \/ BrowserifyRow
  \/ BrowserifyEnd
  \/ BrowserifyError
  \/ ThenListFiles
  \/ ListFilesSettles
  \/ ThenFinalPaths
  \/ ThenWriteZip
  \/ ThenRemoveDir
  \/ RemoveDirSettles
  \/ ThenReturnZipPath
  \/ BuildRejects
  \/ CallBuildAndUploadDir
  \/ CheckCredentialsSettles
  \/ UpThenBuild
  \/ UpBuildSettles
  \/ UpThenUpload
  \/ UploadSettles
  \/ UpResolves
  \/ UpRejects

Spec == Init /\ [][Next]_vars

\* the steps of a build in flight: the callbacks of its chain, which the
\* event loop runs once the promise before them is settled, and the
\* settling of the collaborators' operations, each of which ends or fails
BuildProgress ==
  \/ EnsureDirSettles
  \/ ThenCopyDir
  \/ CopyDirSettles
  \/ ThenNpmInstall
  \/ NpmInstallSettles
  \/ ThenReadFile
  \/ ReadFileSettles
  \/ ThenWriteFile
  \/ WriteFileSettles
  \/ ThenValidate
  \/ ValidateSettles
  \/ ThenCheckValidation
  \/ ThenDefinition
  \/ DefinitionSettles
  \/ ThenWriteDefinition
  \/ WriteDefinitionSettles
  \/ ThenTouch
  \/ TouchSettles
  \/ ThenMakeZip
  \/ BrowserifyError
  \/ BrowserifyEnd
  \/ ThenListFiles
  \/ ListFilesSettles
  \/ ThenFinalPaths
  \/ ThenWriteZip
  \/ ThenRemoveDir
  \/ RemoveDirSettles
  \/ ThenReturnZipPath
  \/ BuildRejects

LiveSpec == Spec /\ WF_vars(BuildProgress)

(***************************************************************************)
(* stripPath on its own (line 37), as the row callback of browserifyFiles  *)
(* calls it (lines 73-80): cwd is the working directory with a trailing    *)
(* '/', filePath is what the traversal reports for a file below it.        *)
(***************************************************************************)
\* build.js is idle in the specifications of single functions
BuildIdle ==
  /\ BuildInit
  /\ srcFiles = {IndexJs}
  /\ disableDetection = FALSE

\* names of directories and files below the working directory
Segments == {<<"a">>, <<"t", "m", "p">>,
             <<"z", "a", "p", "i", "e", "r", "-", "0">>, IndexJs}
RECURSIVE Join(_)
Join(segs) ==
  IF Len(segs) = 1 THEN segs[1]
  ELSE segs[1] \o <<"/">> \o Join(Tail(segs))
RelativePaths ==
  {Join(segs) : segs \in UNION {[1..n -> Segments] : n \in 1..MaxSegments}}
\* the working directories build makes, with the '/' browserifyFiles adds
StripBases ==
  {OsTmpdir \o <<"/", "z", "a", "p", "i", "e", "r", "-">> \o hex \o <<"/">> :
     hex \in RandomHex}
\* what the traversal puts before the working directory (line 77)
StripPrefixes == {<<>>, PrivatePrefix}

StripInit ==
  /\ BuildIdle
  /\ ConcIdle
  /\ CliIdle
  /\ spCwd \in StripBases
  /\ spRel \in RelativePaths
  /\ \E prefix \in StripPrefixes : spFile = prefix \o spCwd \o spRel
  /\ spOut = <<>>
  /\ spDone = FALSE

\* paths.push(stripPath(cwd, row.file || row.id))
StripApply ==
  /\ ~spDone
  /\ spOut' = stripPath(spCwd, spFile)
  /\ spDone' = TRUE
  /\ UNCHANGED <<buildVars, concVars, cliVars, spCwd, spRel, spFile>>

StripNext == StripApply

StripSpec == StripInit /\ [][StripNext]_vars

(***************************************************************************)
(* Several calls of build in one process (lines 156-217).  Each call has   *)
(* its own promise chain, the file system below os.tmpdir() is shared.     *)
(* The steps between copyDir and the touch are one step here, as all of    *)
(* them write into tmpDir and nowhere else.                                *)
(***************************************************************************)
\* crypto.randomBytes(4).toString('hex'), two of its values
ConcHex == {<<"0">>, <<"1">>}

ConcInit ==
  /\ BuildIdle
  /\ StripIdle
  /\ ConcIdle
  /\ CliIdle

ConcGoto(b, pc) == cPc' = [cPc EXCEPT ![b] = pc]
ConcLogged(b, what) ==
  cLog' = cLog \cup {[dir |-> cDir[b], by |-> b, what |-> what]}

\* build() up to ensureDir(tmpDir) (lines 156-160)
ConcCallBuild(b) ==
  /\ cPc[b] = "notStarted"
  /\ \E hex \in ConcHex :
       cDir' = [cDir EXCEPT ![b] =
                  OsTmpdir \o <<"/", "z", "a", "p", "i", "e", "r", "-">> \o hex]
  /\ ConcGoto(b, "ensureDir")
  /\ UNCHANGED <<buildVars, stripVars, cliVars, cExists, cFresh, cLog>>

\* ensureDir(tmpDir) is fulfilled whether or not the directory existed
ConcEnsureDirSettles(b) ==
  /\ cPc[b] = "ensureDir"
  /\ cFresh' = [cFresh EXCEPT ![b] = cDir[b] \notin cExists]
  /\ cExists' = cExists \cup {cDir[b]}
  /\ ConcGoto(b, "fill")
  /\ UNCHANGED <<buildVars, stripVars, cliVars, cDir, cLog>>

\* copyDir, npm install, the writeFiles and the touch: writes into tmpDir
ConcFillSettles(b) ==
  /\ cPc[b] = "fill"
  /\ ConcLogged(b, "write")
  /\ ConcGoto(b, "makeZip")
  /\ UNCHANGED <<buildVars, stripVars, cliVars, cDir, cExists, cFresh>>

\* makeZip(tmpDir, ...) reads tmpDir
ConcMakeZipSettles(b) ==
  /\ cPc[b] = "makeZip"
  /\ ConcLogged(b, "read")
  /\ ConcGoto(b, "removeDir")
  /\ UNCHANGED <<buildVars, stripVars, cliVars, cDir, cExists, cFresh>>

\* removeDir(tmpDir), then build resolves
ConcRemoveDirSettles(b) ==
  /\ cPc[b] = "removeDir"
  /\ cExists' = cExists \ {cDir[b]}
  /\ ConcLogged(b, "remove")
  /\ ConcGoto(b, "resolved")
  /\ UNCHANGED <<buildVars, stripVars, cliVars, cDir, cFresh>>

\* a step after ensureDir is rejected: build rejects, tmpDir stays
ConcRejects(b) ==
  /\ cPc[b] \in {"fill", "makeZip"}
  /\ ConcGoto(b, "rejected")
  /\ UNCHANGED <<buildVars, stripVars, cliVars, cDir, cExists, cFresh, cLog>>

ConcNext ==
  \E b \in Builds :
    \/ ConcCallBuild(b)
    \/ ConcEnsureDirSettles(b)
    \/ ConcFillSettles(b)
    \/ ConcMakeZipSettles(b)
    \/ ConcRemoveDirSettles(b)
    \/ ConcRejects(b)

ConcSpec == ConcInit /\ [][ConcNext]_vars

(***************************************************************************)
(* The CLI entry (entry.js lines 10-88).  utils.isValidNodeVersion,        *)
(* utils.argParse and utils.enforceArgSpec are collaborators: what they    *)
(* return is an input.                                                     *)
(***************************************************************************)
\* names in the commands table, and words a user may type
Commands == {"help", "build", "push"}
Words == Commands \cup {"invitees"}
ArgLists == UNION {[1..n -> Words] : n \in 0..MaxArgs}
ErrorLists == {<<>>, <<"error 1">>, <<"error 1", "error 2">>}

\* as KnownCommand, with every name taken for the name of a command
KnownCommandAny(name) == TRUE

\* let commandFunc = commands[command]; if (!commandFunc) ...
KnownCommand(name) == name \in Commands

\* if (argOpts.help || args.length === 0) args = ['help'].concat(args)
HelpRewritten(a, help) == IF help \/ Len(a) = 0 THEN <<"help">> \o a ELSE a

CliInit ==
  /\ BuildIdle
  /\ StripIdle
  /\ ConcIdle
  /\ cliPc = "called"
  /\ nodeValid \in BOOLEAN
  /\ parsedArgs \in ArgLists
  /\ helpOpt \in BOOLEAN
  /\ args = <<>>
  /\ command = ""
  /\ errors = <<>>
  /\ invoked = <<>>
  /\ lines = <<>>

\* lines 13-19: an invalid node version ends the process
CliCheckNodeVersion ==
  /\ cliPc = "called"
  /\ IF nodeValid
       THEN /\ cliPc' = "parse"
            /\ UNCHANGED lines
       ELSE /\ cliPc' = "exited"
            /\ lines' = Append(lines, "requires node")
  /\ UNCHANGED <<buildVars, stripVars, concVars, nodeValid, parsedArgs,
                 helpOpt, args, command, errors, invoked>>

\* lines 27-41: the parsed arguments, the help rewrite, command and args
CliParse ==
  /\ cliPc = "parse"
  /\ command' = HelpRewritten(parsedArgs, helpOpt)[1]
  /\ args' = Tail(HelpRewritten(parsedArgs, helpOpt))
  /\ cliPc' = "lookup"
  /\ UNCHANGED <<buildVars, stripVars, concVars, nodeValid, parsedArgs,
                 helpOpt, errors, invoked, lines>>

\* lines 43-48: a name that is not in the table prints and returns
CliLookup ==
  /\ cliPc = "lookup"
  /\ IF KnownCommand(command)
       THEN /\ cliPc' = "enforce"
            /\ UNCHANGED lines
       ELSE /\ cliPc' = "returned"
            /\ lines' = Append(lines, "not a command")
  /\ UNCHANGED <<buildVars, stripVars, concVars, nodeValid, parsedArgs,
                 helpOpt, args, command, errors, invoked>>

\* lines 54-68: enforceArgSpec; errors print and return, otherwise the
\* command function is applied to the context and the args
CliEnforceArgSpec ==
  /\ cliPc = "enforce"
  /\ \E errs \in ErrorLists :
       /\ errors' = errs
       /\ IF Len(errs) > 0
            THEN /\ cliPc' = "returned"
                 /\ lines' = lines \o errs \o <<"adjust your command">>
                 /\ UNCHANGED invoked
            ELSE /\ cliPc' = "running"
                 /\ invoked' =
                      Append(invoked, [command |-> command, args |-> args])
                 /\ UNCHANGED lines
  /\ UNCHANGED <<buildVars, stripVars, concVars, nodeValid, parsedArgs,
                 helpOpt, args, command>>

\* lines 69-72: the command's promise is fulfilled
CliCommandResolves ==
  /\ cliPc = "running"
  /\ cliPc' = "done"
  /\ lines' = Append(lines, "")
  /\ UNCHANGED <<buildVars, stripVars, concVars, nodeValid, parsedArgs,
                 helpOpt, args, command, errors, invoked>>

\* lines 73-87: it is rejected; the error is printed and thrown again
CliCommandRejects ==
  /\ cliPc = "running"
  /\ cliPc' = "failed"
  /\ lines' = Append(lines, "Error!")
  /\ UNCHANGED <<buildVars, stripVars, concVars, nodeValid, parsedArgs,
                 helpOpt, args, command, errors, invoked>>

CliNext ==
  \/ CliCheckNodeVersion
  \/ CliParse
  \/ CliLookup
  \/ CliEnforceArgSpec
  \/ CliCommandResolves
  \/ CliCommandRejects

CliSpec == CliInit /\ [][CliNext]_vars

(***************************************************************************)
(* Properties.                                                             *)
(***************************************************************************)
BuildSettled == bState \in {"resolved", "rejected"}
\* the steps that ended fulfilled, and the errors steps ended with
FulfilledSteps == {outcomes[i].op : i \in {j \in DOMAIN outcomes : outcomes[j].ok}}
Failures == SelectSeq(outcomes, LAMBDA o : ~o.ok)
\* ensureDir created the working directory
DirCreated == "ensureDir" \in FulfilledSteps
\* the steps of build that come before makeZip
PreArchiveSteps ==
  { "ensureDir", "copyDir", "npmInstall", "readFile", "writeFile", "validate",
    "checkValidation", "definition", "writeDefinition", "touch" }

\* C1: when build's promise has settled, resolved or rejected at whatever
\* stage, removeDir has been invoked exactly once on the working directory
\* the run created, and the directory is gone.
C1_CleanupOnEveryExit ==
  (BuildSettled /\ DirCreated) => (calls["removeDir"] = 1 /\ ~tmpExists)

\* C2: in a run whose validation delivered a non-empty results list, and in
\* a run rejected by any step before the archive stage, makeZip is never
\* invoked and no archive is written at the target path.
C2_NoArchiveAfterFailure ==
  /\ Len(resp) > 0 => (calls["makeZip"] = 0 /\ ~archive.written)
  /\ (bState = "rejected" /\ Failures # <<>> /\ Failures[1].op \in PreArchiveSteps)
       => (calls["makeZip"] = 0 /\ ~archive.written)

\* a run whose validation reported two problems has been rejected
C2_Witness ==
  /\ bState = "rejected"
  /\ Len(resp) = 2
  /\ settled.op = "checkValidation"

\* the stages, in the order the build is to run them, and the stage every
\* step of build belongs to
StageOrder ==
  << "isolate", "install", "inject", "validate", "extract", "normalize",
     "archive", "cleanup" >>
StageOf(op) ==
  CASE op \in {"ensureDir", "copyDir"} -> "isolate"
    [] op = "npmInstall" -> "install"
    [] op \in {"readFile", "writeFile"} -> "inject"
    [] op \in {"validate", "checkValidation"} -> "validate"
    [] op \in {"definition", "writeDefinition"} -> "extract"
    [] op = "touch" -> "normalize"
    [] op \in {"browserify", "listFiles", "finalPaths", "writeZip"} -> "archive"
    [] op = "removeDir" -> "cleanup"
StageIndex(op) == CHOOSE i \in DOMAIN StageOrder : StageOrder[i] = StageOf(op)

\* C3: the steps of build start in the fixed order of the stages: the first
\* step belongs to the first stage, every later step to the stage of the
\* step before it or to the next one, and no step is started twice; a step
\* starts only when every step before it has ended fulfilled; at most one
\* operation is in progress, and it is the one started last; and a resolved
\* build has run every stage.
C3_StagesInOrder ==
  /\ Cardinality(pending) <= 1
  /\ \A op \in pending : opLog # <<>> /\ op = opLog[Len(opLog)]
  /\ \A i \in DOMAIN opLog :
       /\ i = 1 => StageIndex(opLog[i]) = 1
       /\ i > 1 => /\ StageIndex(opLog[i]) >= StageIndex(opLog[i - 1])
                   /\ StageIndex(opLog[i]) <= StageIndex(opLog[i - 1]) + 1
       /\ \A j \in DOMAIN opLog : j # i => opLog[j] # opLog[i]
       /\ i < Len(opLog) => (i \in DOMAIN outcomes /\ outcomes[i].op = opLog[i]
                               /\ outcomes[i].ok)
  /\ bState = "resolved" =>
       /\ {StageOf(opLog[i]) : i \in DOMAIN opLog} = Range(StageOrder)
       /\ Range(opLog) = FulfilledSteps

\* a build has resolved after its cleanup
C3_Witness ==
  /\ bState = "resolved"
  /\ Len(opLog) > 0
  /\ opLog[Len(opLog)] = "removeDir"

\* makeZip has computed the paths to archive
PathsDecided == "finalPaths" \in FulfilledSteps
\* the always-included files: a path that ends with the package manifest's
\* or the definition file's name
AlwaysIncluded(p) == EndsWith(p, PackageJson) \/ EndsWith(p, DefinitionJson)
\* ascending with no two equal neighbours
StrictlySorted(seq) ==
  \A i \in DOMAIN seq : \A j \in DOMAIN seq : i < j => StrLess(seq[i], seq[j])

\* C4: the paths makeZip archives are, with dependency detection on, the
\* resolver's paths and the always-included scanned paths and no others,
\* each once, in ascending order; with detection disabled, the scan's list
\* as it is.
C4_InclusionSet ==
  PathsDecided =>
    IF disableDetection
      THEN finalPaths = dumbPaths
      ELSE /\ Range(finalPaths) =
                Range(smartPaths) \cup {d \in Range(dumbPaths) : AlwaysIncluded(d)}
           /\ StrictlySorted(finalPaths)

\* with detection on, README.md was scanned and is left out, package.json
\* was not reached by the resolver and is archived
C4_Witness ==
  /\ PathsDecided
  /\ ~disableDetection
  /\ ReadmeMd \in Range(dumbPaths) \ Range(finalPaths)
  /\ PackageJson \in Range(finalPaths) \ Range(smartPaths)
  /\ IndexJs \in Range(smartPaths)

\* the file name is one of the two names, exactly
ExactName(p) == Basename(p) \in {PackageJson, DefinitionJson}

\* C5 as claimed: every file of the working directory named exactly
\* package.json or definition.json is among the paths archived, under both
\* policies, and the always-included predicate holds of no file with any
\* other name.
C5_ExactNamesOnly ==
  settled.op = "finalPaths" =>
    /\ \A f \in tmpFiles : ExactName(f) => f \in Range(finalPaths)
    /\ \A f \in tmpFiles : forceIncludeDumbPath(f) => ExactName(f)

\* C5 as amended: every scanned path whose file name is exactly package.json
\* or definition.json is among the paths archived, under both policies; and
\* with detection on, a scanned path the resolver did not reach is archived
\* exactly when it ends with one of the two names.
C5_ForceIncludedByEnding ==
  PathsDecided =>
    /\ \A f \in Range(dumbPaths) : ExactName(f) => f \in Range(finalPaths)
    /\ ~disableDetection =>
         \A f \in Range(dumbPaths) \ Range(smartPaths) :
           f \in Range(finalPaths) <=>
             (EndsWith(f, PackageJson) \/ EndsWith(f, DefinitionJson))

\* with detection on, lib/package.json, definition.json and xpackage.json,
\* none reached by the resolver, are archived
C5_Witness ==
  /\ PathsDecided
  /\ ~disableDetection
  /\ {LibPackageJson, DefinitionJson, XPackageJson}
       \subseteq Range(finalPaths) \ Range(smartPaths)

UpEvents == Range(upLog)

\* C6: the coordinator's operations start in the order checkCredentials,
\* build, upload, each after the one before it was fulfilled; after a
\* rejected credential check build and upload are never invoked and no
\* working directory exists; after a rejected build upload is never
\* invoked; and nothing is invoked twice.
C6_CoordinatorOrder ==
  /\ \A f \in DOMAIN calls : calls[f] <= 1
  /\ \A i \in DOMAIN upLog :
       /\ upLog[i][2] = UpChain[(i + 1) \div 2]
       /\ i % 2 = 1 => upLog[i][1] = "start"
       /\ i % 2 = 0 => upLog[i][1] \in {"fulfilled", "rejected"}
       /\ (i > 1 /\ i % 2 = 1) => upLog[i - 1][1] = "fulfilled"
  /\ entry = "buildAndUploadDir" =>
       /\ calls["build"] = 1 =>
            /\ <<"fulfilled", "checkCredentials">> \in UpEvents
            /\ <<"start", "build">> \in UpEvents
       /\ <<"fulfilled", "checkCredentials">> \notin UpEvents =>
            /\ calls["build"] = 0
            /\ calls["upload"] = 0
            /\ bState = "notStarted"
            /\ tmpDir = <<>>
            /\ ~tmpExists
       /\ calls["upload"] = 1 => (bState = "resolved" /\ <<"fulfilled", "build">> \in UpEvents)
       /\ bState # "resolved" => calls["upload"] = 0
  /\ entry # "buildAndUploadDir" =>
       (calls["checkCredentials"] = 0 /\ calls["upload"] = 0 /\ upLog = <<>>)

\* the coordinator rejected with a failed build behind it and no upload
C6_Witness ==
  /\ upState = "rejected"
  /\ bState = "rejected"
  /\ <<"rejected", "build">> \in UpEvents
  /\ calls["upload"] = 0

\* C7: a resolved buildAndUploadDir and a resolved build resolve with the
\* archive path: the zipPath given, or the default build path.
C7_ResolvesWithArchivePath ==
  /\ upState = "resolved" => upValue = PathValue(OrDefault(zipPathArg, BUILD_PATH))
  /\ bState = "resolved" =>
       bValue = PathValue(IF zipPathArg = Undefined THEN BUILD_PATH ELSE zipPathArg)

\* C8: the error build rejects with after a validation that reported
\* problems carries the list of them.
C8_ValidationListPreserved ==
  (bState = "rejected" /\ settled.op = "checkValidation") =>
    (bValue.results = resp /\ Len(resp) > 0)

\* C9: a rejected build whose failing step was a collaborator's operation
\* rejects with exactly the error that operation produced; it is the only
\* error of the run, and no step was started after the one that failed.
C9_CollaboratorErrorPreserved ==
  (bState = "rejected" /\ Failures # <<>> /\ Failures[1].op # "checkValidation") =>
    /\ Len(Failures) = 1
    /\ bValue = Failures[1].val
    /\ bValue.kind = "error"
    /\ bValue.of = opLog[Len(opLog)]
    /\ bValue.detail \in ErrDetails

\* npm install failed with its second output and build rejected with it
C9_Witness ==
  /\ bState = "rejected"
  /\ opLog[Len(opLog)] = "npmInstall"
  /\ bValue = ErrorOf("npmInstall", "output 2")

\* C10: the list browserifyFiles resolves with is ascending and has no
\* path twice.
C10_ResolverSortedNoDuplicates ==
  "browserify" \in FulfilledSteps =>
    /\ \A i \in DOMAIN smartPaths : \A j \in DOMAIN smartPaths :
         i < j => ~StrLess(smartPaths[j], smartPaths[i])
    /\ \A i \in DOMAIN smartPaths : \A j \in DOMAIN smartPaths :
         i # j => smartPaths[i] # smartPaths[j]

\* C11: for every path below the base directory, reported as base plus
\* relative path or with something before the base, stripPath returns
\* exactly the relative path, also when the base directory's string occurs
\* again inside the relative path.
C11_StripReturnsRelativePath == spDone => spOut = spRel

ConcInFlight(b) == cPc[b] \in {"ensureDir", "fill", "makeZip", "removeDir"}
ConcCreated(b) == cPc[b] \notin {"notStarted", "ensureDir"}

\* C12: two builds in flight at the same time never have the same working
\* directory, the directory of every build was created by its own
\* ensureDir, and no other build in flight wrote into it or removed it.
C12_WorkingDirectoriesDisjoint ==
  /\ \A b \in Builds : ConcCreated(b) => cFresh[b]
  /\ \A b1 \in Builds : \A b2 \in Builds \ {b1} :
       ConcInFlight(b1) /\ ConcInFlight(b2) =>
         /\ cDir[b1] # cDir[b2]
         /\ \A l \in cLog : l.dir = cDir[b1] /\ l.what # "read" => l.by # b2

\* the steps of makeZip that read the working directory
ArchiveReads == {"browserify", "listFiles", "writeZip"}
DefinitionEntries ==
  {i \in DOMAIN archive.entries :
     archive.entries[i].local = tmpDir \o <<"/">> \o DefinitionJson}

\* C13: the definition command is invoked only after the validate command
\* delivered an empty list; the definition file is written, and the write
\* has ended, before any step of makeZip that reads the working directory
\* starts; and the archive of a resolved build has, under both policies,
\* one entry for the definition file, at the archive's root, whose content
\* is the pretty-printed result of the definition command.
C13_DefinitionFileArchived ==
  /\ "definition" \in Range(opLog) =>
       /\ "checkValidation" \in FulfilledSteps
       /\ resp = <<>>
  /\ \A i \in DOMAIN opLog :
       opLog[i] \in ArchiveReads =>
         /\ "writeDefinition" \in FulfilledSteps
         /\ \E j \in 1..(i - 1) : opLog[j] = "writeDefinition"
  /\ bState = "resolved" =>
       /\ rawDefinition \in Definitions
       /\ Cardinality(DefinitionEntries) = 1
       /\ \A i \in DefinitionEntries :
            /\ archive.entries[i].zipDir = NoDir
            /\ archive.entries[i].data = <<"pretty", rawDefinition>>

\* a build has resolved under dependency detection, and the traversal did
\* not reach the definition file
C13_Witness ==
  /\ bState = "resolved"
  /\ ~disableDetection
  /\ DefinitionJson \notin Range(smartPaths)
  /\ DefinitionEntries # {}
  /\ Len(archive.entries) > 1

HasDirectory(p) == \E i \in DOMAIN p : p[i] = "/"

\* C14: the archive written has one entry for each path of the inclusion
\* set and no other, in the set's ascending order; the entry is read from
\* that path below the working directory; a path with no directory is put
\* at the archive's root, any other under the directory it has in the path.
C14_OneEntryPerPath ==
  archive.written =>
    /\ StrictlySorted(finalPaths)
    /\ Len(archive.entries) = Len(finalPaths)
    /\ \A i \in DOMAIN finalPaths :
         LET e == archive.entries[i]
             f == finalPaths[i]
         IN  /\ e.local = tmpDir \o <<"/">> \o f
             /\ ~HasDirectory(f) => e.zipDir = NoDir
             /\ HasDirectory(f) => e.zipDir \o <<"/">> \o Basename(f) = f

\* an archive with an entry at its root and an entry in a directory
C14_Witness ==
  /\ archive.written
  /\ \E i \in DOMAIN finalPaths : ~HasDirectory(finalPaths[i])
  /\ \E i \in DOMAIN finalPaths :
       HasDirectory(finalPaths[i]) /\ archive.entries[i].zipDir # NoDir

\* the steps of build that invoke the handler
HandlerSteps == {"validate", "definition"}
HandlerCalls == SelectSeq(opLog, LAMBDA op : op \in HandlerSteps)
HandlerOutcomes == SelectSeq(outcomes, LAMBDA o : o.op \in HandlerSteps)

\* C15: build invokes the handler once for each handler step it starts,
\* with an event that has the step's command and both flags true, while
\* the object build passed has the command and nothing else; and each
\* handler step ends as the handler's callback was called: rejected with
\* its error, or fulfilled with its response, which is then resp.results
\* or rawDefinition.results.
C15_HandlerEventAndResult ==
  /\ Len(events) = Len(HandlerCalls)
  /\ Len(callerEvents) = Len(HandlerCalls)
  /\ \A i \in DOMAIN events :
       /\ events[i].command = HandlerCalls[i]
       /\ events[i].calledFromCli = TRUE
       /\ events[i].doNotMonkeyPatchPromises = TRUE
       /\ DOMAIN events[i] = {"command", "calledFromCli", "doNotMonkeyPatchPromises"}
       /\ callerEvents[i] = [command |-> HandlerCalls[i]]
  /\ Len(delivered) = Len(HandlerOutcomes)
  /\ \A i \in DOMAIN delivered :
       /\ delivered[i].command = HandlerOutcomes[i].op
       /\ HandlerOutcomes[i].ok = (delivered[i].err = NoValue)
       /\ ~HandlerOutcomes[i].ok => HandlerOutcomes[i].val = delivered[i].err
       /\ HandlerOutcomes[i].ok /\ delivered[i].command = "validate" =>
            resp = delivered[i].response
       /\ HandlerOutcomes[i].ok /\ delivered[i].command = "definition" =>
            rawDefinition = delivered[i].response

\* both commands were invoked and both delivered a response
C15_Witness ==
  /\ Len(events) = 2
  /\ Len(delivered) = 2
  /\ delivered[2].err = NoValue
  /\ rawDefinition = delivered[2].response

\* the writes the steps started so far were given to do
Writes ==
  {[op |-> opLog[i], under |-> WriteRoot(opLog[i])] :
     i \in {j \in DOMAIN opLog : opLog[j] \in Writers}}

\* C16 as claimed: no step of build writes below the source directory.
C16_SourceDirectoryUntouched ==
  /\ \A w \in Writes : w.under # "wdir"
  /\ archive.written => archive.dir # wdir

\* C16: the only step of build given a path below the source directory to
\* write is the one that writes the archive, at zipPath below it; every
\* other write, the cleanup's too, is below the working directory.
C16_OnlyArchiveBelowSource ==
  /\ \A w \in Writes : w.under = "wdir" => w.op = "writeZip"
  /\ \A w \in Writes : w.op # "writeZip" => w.under = "tmpDir"
  /\ archive.written => /\ archive.dir = wdir
                         /\ archive.path = zipPath
                         /\ [op |-> "writeZip", under |-> "wdir"] \in Writes

\* a build has resolved: every writing step has run
C16_Witness ==
  /\ bState = "resolved"
  /\ archive.written
  /\ {w.op : w \in Writes} = Writers

\* C17: a build that was started is at some later time settled, resolved
\* with the archive's path or rejected with an error; and a settled build
\* keeps its state and its value.
C17_BuildSettlesOnce ==
  /\ (bState = "running") ~> BuildSettled
  /\ [](bState = "resolved" => bValue = PathValue(zipPath))
  /\ [](bState = "rejected" => bValue.kind \in {"error", "Error"})
  /\ [][BuildSettled => (bState' = bState /\ bValue' = bValue)]_vars

\* a build called by the coordinator has resolved
C17_Witness ==
  /\ entry = "buildAndUploadDir"
  /\ bState = "resolved"
  /\ bValue = PathValue(zipPath)
  /\ pending = {}

ResolverFailed == \E i \in DOMAIN outcomes : outcomes[i].op = "browserify" /\ ~outcomes[i].ok

\* C18: under either policy the scan of the working directory is started
\* only after the traversal of the dependencies, and only when that is
\* fulfilled; when it is rejected the scan is never started, no archive is
\* written, and the build is, once settled, rejected with the traversal's
\* error.
C18_ResolverBeforeScan ==
  /\ \A i \in DOMAIN opLog :
       opLog[i] = "listFiles" =>
         /\ \E j \in 1..(i - 1) : opLog[j] = "browserify"
         /\ "browserify" \in FulfilledSteps
  /\ ResolverFailed =>
       /\ "listFiles" \notin Range(opLog)
       /\ ~archive.written
       /\ bState # "resolved"
       /\ bState = "rejected" =>
            bValue \in {ErrorOf("browserify", d) : d \in ErrDetails}

\* with detection disabled the traversal failed and the build is rejected
C18_Witness ==
  /\ disableDetection
  /\ ResolverFailed
  /\ bState = "rejected"
  /\ calls["makeZip"] = 1

CliHelpAsked == helpOpt \/ parsedArgs = <<>>
CliEnded == cliPc \in {"exited", "returned", "done", "failed"}

=============================================================================
